---- MODULE Spec2Model ----
(***************************************************************************)
(* A model of src/index.ts: the validation checks (checkType,              *)
(* checkNumberValue, checkStringLength, checkAsync), the runners           *)
(* (syncValidate, asyncValidate) and StdoutReporter.                       *)
(*                                                                         *)
(* Four specifications share the module, one per part of the pipeline:     *)
(*   SpecSync      syncValidate over the three synchronous checks          *)
(*   SpecAsync     one invocation of a predicate built by checkAsync       *)
(*   SpecAll       one call of asyncValidate (Promise.all)                 *)
(*   SpecReporter  one StdoutReporter and the calls of its methods         *)
(* Each leaves the variables of the other parts at their idle values.      *)
(***************************************************************************)
EXTENDS Integers, Sequences, FiniteSets, TLC

VARIABLES
    value,          \* the value handed to the validators
    validators,     \* the validator list handed to syncValidate / asyncValidate
    results,        \* what syncValidate returned
    timeout,        \* checkAsync: the configured timeout (a sequence: <<>> is undefined)
    pc,             \* checkAsync: where the async predicate stands
    timer,          \* checkAsync: the local `timer` and the state of the timer it names
    callbackPromise,\* checkAsync: the promise callback(Number(value)) returned
    callbackArg,    \* checkAsync: what the callback was called with
    timeoutPromise, \* checkAsync: the promise the timer rejects
    racePromise,    \* checkAsync: Promise.race([callback(...), timeoutPromise])
    retPromise,     \* checkAsync: the promise the async predicate returned
    events,         \* checkAsync: the settlements of the two raced promises, in order
    apc,            \* asyncValidate: where the call stands
    promises,       \* asyncValidate: the promises validators.map(...) produced
    values,         \* asyncValidate: Promise.all's result slots
    remaining,      \* asyncValidate: Promise.all's count of unresolved elements
    aggregate,      \* asyncValidate: the promise asyncValidate returned
    order,          \* asyncValidate: the indices of the validators, in completion order
    result,         \* StdoutReporter: this.result
    calls,          \* StdoutReporter: the methods called so far
    retIsValid,     \* StdoutReporter: what isValid() returned
    retPickInvalid, \* StdoutReporter: what pickInvalid() returned
    retPickValid,   \* StdoutReporter: what pickValid() returned
    stdout          \* StdoutReporter: the lines report() wrote

syncVars == <<value, validators, results>>
asyncVars == <<timeout, pc, timer, callbackPromise, callbackArg, timeoutPromise,
               racePromise, retPromise, events>>
allVars == <<apc, promises, values, remaining, aggregate, order>>
reporterVars == <<result, calls, retIsValid, retPickInvalid, retPickValid, stdout>>
vars == <<syncVars, asyncVars, allVars, reporterVars>>

(***************************************************************************)
(* Bounds of the model.                                                    *)
(***************************************************************************)
MaxNum == 2
MaxStrLen == 2
MaxValidators == 2
MaxAsyncValidators == 3
MaxBatch == 3
MaxTimeout == 1
MaxOutput == 4

(***************************************************************************)
(* JavaScript values.  A value is a record of its runtime type and its     *)
(* payload; NaN is a number with nan set.                                  *)
(***************************************************************************)
Num(n) == [type |-> "number", nan |-> FALSE, num |-> n, str |-> ""]
NaN == [type |-> "number", nan |-> TRUE, num |-> 0, str |-> ""]
Str(s) == [type |-> "string", nan |-> FALSE, num |-> 0, str |-> s]
Null == [type |-> "null", nan |-> FALSE, num |-> 0, str |-> ""]
Undefined == [type |-> "undefined", nan |-> FALSE, num |-> 0, str |-> ""]
Bool == [type |-> "boolean", nan |-> FALSE, num |-> 1, str |-> ""]

\* typeof: null is an "object".
TypeOf(v) == IF v.type = "null" THEN "object" ELSE v.type

RECURSIVE Repeat(_, _)
Repeat(s, n) == IF n = 0 THEN "" ELSE s \o Repeat(s, n - 1)

Numbers == {Num(n) : n \in -MaxNum..MaxNum} \cup {NaN}
Strings == {Str(Repeat("a", n)) : n \in 0..(MaxStrLen + 1)}
Values == Numbers \cup Strings \cup {Null, Undefined, Bool}

\* The comparisons >= and <= of two numbers: false when either is NaN.
Geq(a, b) == ~a.nan /\ ~b.nan /\ a.num >= b.num
Leq(a, b) == ~a.nan /\ ~b.nan /\ a.num <= b.num

\* A number in a template literal: ${n}.
Digit(d) == CASE d = 0 -> "0" [] d = 1 -> "1" [] d = 2 -> "2" [] d = 3 -> "3"
              [] d = 4 -> "4" [] d = 5 -> "5" [] d = 6 -> "6" [] d = 7 -> "7"
              [] d = 8 -> "8" [] d = 9 -> "9"
RECURSIVE NatToString(_)
NatToString(n) == IF n < 10 THEN Digit(n) ELSE NatToString(n \div 10) \o Digit(n % 10)
NumberToString(v) ==
    IF v.nan THEN "NaN"
    ELSE IF v.num < 0 THEN "-" \o NatToString(-v.num) ELSE NatToString(v.num)

(***************************************************************************)
(* ValidationResult: message is a string or null.                          *)
(***************************************************************************)
NullMessage == [null |-> TRUE, text |-> ""]
Message(s) == [null |-> FALSE, text |-> s]
ValidationResult(ok, msg) == [isValid |-> ok, message |-> msg]
ValidResult == ValidationResult(TRUE, NullMessage)

(***************************************************************************)
(* The synchronous checks.                                                 *)
(***************************************************************************)
checkType(targetType, v) ==
    IF TypeOf(v) = targetType
    THEN ValidationResult(TRUE, NullMessage)
    ELSE ValidationResult(FALSE, Message("Value is not a " \o targetType))

\* A faulty variant of checkNumberValue: the lower bound is exclusive
\* (value > min).
checkNumberValueExclusive(min, max, v) ==
    IF TypeOf(v) # "number"
    THEN ValidationResult(FALSE, Message("Value is not a number"))
    ELSE LET isValid == ~v.nan /\ ~min.nan /\ v.num > min.num /\ Leq(v, max)
         IN  ValidationResult(isValid,
                 IF isValid THEN NullMessage
                 ELSE Message("Value should be between " \o NumberToString(min)
                              \o " and " \o NumberToString(max)))

checkNumberValue(min, max, v) ==
    IF TypeOf(v) # "number"
    THEN ValidationResult(FALSE, Message("Value is not a number"))
    ELSE LET isValid == Geq(v, min) /\ Leq(v, max)
         IN  ValidationResult(isValid,
                 IF isValid THEN NullMessage
                 ELSE Message("Value should be between " \o NumberToString(min)
                              \o " and " \o NumberToString(max)))

checkStringLength(min, max, v) ==
    IF TypeOf(v) # "string"
    THEN ValidationResult(FALSE, Message("Value is not a string"))
    ELSE LET stringLength == Num(Len(v.str))
             isValid == Geq(stringLength, min) /\ Leq(stringLength, max)
         IN  ValidationResult(isValid,
                 IF isValid THEN NullMessage
                 ELSE Message("Length should be between " \o NumberToString(min)
                              \o " and " \o NumberToString(max)))

\* A configured synchronous validator, and its application to a value.
SyncValidator(check, targetType, min, max) ==
    [check |-> check, targetType |-> targetType, min |-> min, max |-> max]
ApplySync(validator, v) ==
    CASE validator.check = "checkType" -> checkType(validator.targetType, v)
      [] validator.check = "checkNumberValue" ->
             checkNumberValue(validator.min, validator.max, v)
      [] validator.check = "checkStringLength" ->
             checkStringLength(validator.min, validator.max, v)

syncValidate(v, vs) == [i \in 1..Len(vs) |-> ApplySync(vs[i], v)]

(***************************************************************************)
(* Promises and thrown values.  A promise is its state and, once settled,  *)
(* the one value or reason it settled with.                                *)
(***************************************************************************)
NoPromise == [state |-> "none", value |-> <<>>]
Pending == [state |-> "pending", value |-> <<>>]
Resolved(x) == [state |-> "resolved", value |-> <<x>>]
Rejected(e) == [state |-> "rejected", value |-> <<e>>]
Settled(p) == p.state \in {"resolved", "rejected"}

\* What a callback may throw or reject with: an Error carrying a message, or
\* any other value.
ErrorObject(m) == [isError |-> TRUE, message |-> m, raw |-> Undefined]
NonError(v) == [isError |-> FALSE, message |-> "", raw |-> v]
Thrown == {ErrorObject("boom"), ErrorObject(""), NonError(Str("boom")), NonError(Undefined)}
TimeoutError == ErrorObject("Timeout")

\* Number(value).
ToNumber(v) ==
    CASE v.type = "number" -> v
      [] v.type = "null" -> Num(0)
      [] v.type = "boolean" -> Num(v.num)
      [] v.type = "string" -> IF v.str = "" THEN Num(0) ELSE NaN
      [] v.type = "undefined" -> NaN

(***************************************************************************)
(* checkAsync({callback, timeout}): one invocation of the predicate.       *)
(***************************************************************************)
\* The executor of timeoutPromise: the timer exists iff timeout !== undefined.
CreateTimer(t) == IF t # <<>> THEN "pending" ELSE "null"

\* A faulty variant of RaceSettle: every settlement overwrites the race.
RaceSettleLastWins(race, outcome) == outcome

\* Promise.race: the first settlement of an element settles the race; a later
\* one changes nothing.
RaceSettle(race, outcome) == IF race.state = "pending" THEN outcome ELSE race

\* A faulty variant of CatchMessage: a non-Error value is written as a string.
CatchMessageOfAny(e) == IF e.isError THEN Message(e.message) ELSE Message(e.raw.str)

\* The message of the catch clause: e instanceof Error ? e.message : null.
CatchMessage(e) == IF e.isError THEN Message(e.message) ELSE NullMessage

\* The return of the try block: the async predicate's promise resolves.
TryReturn == Resolved(ValidationResult(TRUE, NullMessage))

\* A faulty variant of CatchClause: the timer's rejection is thrown again.
CatchRethrows(e) == IF e = TimeoutError THEN Rejected(e)
                    ELSE Resolved(ValidationResult(FALSE, CatchMessage(e)))

\* The return of the catch clause: the async predicate's promise resolves.
CatchClause(e) == Resolved(ValidationResult(FALSE, CatchMessage(e)))

\* A faulty variant of FinallyClause: the timer is not cleared.
FinallyForgetsTimer(t) == t

\* The finally clause: if (timer) clearTimeout(timer).  Clearing a timer that
\* has fired changes nothing.
FinallyClause(t) == IF t = "pending" THEN "cleared" ELSE t

\* Lines 90-99, the callback returning a promise: the predicate suspends on the race.
Invoke ==
    /\ pc = "start"
    /\ timer' = CreateTimer(timeout)
    /\ timeoutPromise' = Pending
    /\ callbackArg' = <<ToNumber(value)>>
    /\ callbackPromise' = Pending
    /\ racePromise' = Pending
    /\ pc' = "awaiting"
    /\ UNCHANGED <<timeout, retPromise, events>>
    /\ UNCHANGED <<syncVars, allVars, reporterVars>>

\* Lines 90-114, the callback throwing when called: Promise.race is never
\* reached, the catch clause and the finally clause run at once.
InvokeThrows(e) ==
    /\ pc = "start"
    /\ timeoutPromise' = Pending
    /\ callbackArg' = <<ToNumber(value)>>
    /\ retPromise' = CatchClause(e)
    /\ timer' = FinallyClause(CreateTimer(timeout))
    /\ pc' = "done"
    /\ UNCHANGED <<timeout, callbackPromise, racePromise, events>>
    /\ UNCHANGED <<syncVars, allVars, reporterVars>>

\* The callback's promise resolves, whether or not the predicate still waits.
CallbackResolves ==
    /\ callbackPromise.state = "pending"
    /\ callbackPromise' = Resolved(Undefined)
    /\ racePromise' = RaceSettle(racePromise, Resolved(Undefined))
    /\ events' = Append(events, "resolve")
    /\ UNCHANGED <<timeout, pc, timer, callbackArg, timeoutPromise, retPromise>>
    /\ UNCHANGED <<syncVars, allVars, reporterVars>>

\* The callback's promise rejects.
CallbackRejects(e) ==
    /\ callbackPromise.state = "pending"
    /\ callbackPromise' = Rejected(e)
    /\ racePromise' = RaceSettle(racePromise, Rejected(e))
    /\ events' = Append(events, "reject")
    /\ UNCHANGED <<timeout, pc, timer, callbackArg, timeoutPromise, retPromise>>
    /\ UNCHANGED <<syncVars, allVars, reporterVars>>

\* Line 93, the timer's callback: reject(new Error("Timeout")).  It runs only
\* while the timer is pending: a cleared timer never fires.  The model lets it
\* run between the settlement of the race and the resumption of the predicate
\* as well, which is more than the event loop allows.
TimerFires ==
    /\ timer = "pending"
    /\ timer' = "fired"
    /\ timeoutPromise' = Rejected(TimeoutError)
    /\ racePromise' = RaceSettle(racePromise, Rejected(TimeoutError))
    /\ events' = Append(events, "timeout")
    /\ UNCHANGED <<timeout, pc, callbackPromise, callbackArg, retPromise>>
    /\ UNCHANGED <<syncVars, allVars, reporterVars>>

\* Lines 99-114: the await resumes once the race has settled; the try block
\* or the catch clause returns, and the finally clause runs.
Resume ==
    /\ pc = "awaiting"
    /\ Settled(racePromise)
    /\ retPromise' = IF racePromise.state = "resolved" THEN TryReturn
                     ELSE CatchClause(racePromise.value[1])
    /\ timer' = FinallyClause(timer)
    /\ pc' = "done"
    /\ UNCHANGED <<timeout, callbackPromise, callbackArg, timeoutPromise,
                   racePromise, events>>
    /\ UNCHANGED <<syncVars, allVars, reporterVars>>

(***************************************************************************)
(* asyncValidate(value, validators): validators.map(...) then Promise.all. *)
(***************************************************************************)
\* The async validators a caller may hand in, by what their promise settles
\* to.  The first four are built by checkAsync and resolve to what its try
\* block or catch clause returns; the last two break the contract and reject.
AsyncValidators == {"accepts", "boom", "timesOut", "positive", "rejectsA", "rejectsB"}
ValidatorOutcome(validator, v) ==
    CASE validator = "accepts" -> TryReturn
      [] validator = "boom" -> CatchClause(ErrorObject("boom"))
      [] validator = "timesOut" -> CatchClause(TimeoutError)
      [] validator = "positive" ->
             IF Geq(ToNumber(v), Num(1)) THEN TryReturn
             ELSE CatchClause(ErrorObject("not positive"))
      [] validator = "rejectsA" -> Rejected(ErrorObject("A"))
      [] validator = "rejectsB" -> Rejected(NonError(Str("B")))

\* A faulty variant of PromiseAllStore: the value goes to the first free slot.
PromiseAllStoreInCompletionOrder(vals, i, r) ==
    LET free == CHOOSE j \in DOMAIN vals :
                    vals[j] = <<>> /\ \A k \in DOMAIN vals : k < j => vals[k] # <<>>
    IN  [vals EXCEPT ![free] = <<r>>]

\* Promise.all stores the value of element i in slot i.
PromiseAllStore(vals, i, r) == [vals EXCEPT ![i] = <<r>>]

\* A faulty variant of PromiseAllResolve: it does not wait for the last element.
PromiseAllResolveEarly(agg, vals, rem) ==
    IF rem <= 1 /\ agg.state = "pending"
    THEN Resolved([k \in DOMAIN vals |-> IF vals[k] = <<>> THEN ValidResult ELSE vals[k][1]])
    ELSE agg

\* Promise.all resolves, with the slots, once no element remains unresolved.
PromiseAllResolve(agg, vals, rem) ==
    IF rem = 0 /\ agg.state = "pending"
    THEN Resolved([k \in DOMAIN vals |-> vals[k][1]])
    ELSE agg

\* A faulty variant of PromiseAllReject: every rejection overwrites the last.
PromiseAllRejectLastWins(agg, e) == Rejected(e)

\* Promise.all rejects with the reason of the first element that rejects.
PromiseAllReject(agg, e) == IF agg.state = "pending" THEN Rejected(e) ELSE agg

\* Line 84 up to the await: every validator is called with value, in order and
\* without a pause, and Promise.all takes the promises.
Launch ==
    /\ apc = "start"
    /\ promises' = [i \in 1..Len(validators) |-> Pending]
    /\ values' = [i \in 1..Len(validators) |-> <<>>]
    /\ remaining' = Len(validators)
    /\ aggregate' = PromiseAllResolve(Pending, <<>>, Len(validators))
    /\ apc' = "launched"
    /\ UNCHANGED <<value, validators, order>>
    /\ UNCHANGED <<results, asyncVars, reporterVars>>

\* The promise of validator i settles, and Promise.all's reaction to it runs.
\* Reactions run in the order of the settlements, so the two are one step.  A
\* validator that throws when called, instead of returning a promise, is not
\* among the validators modelled.
ValidatorSettles(i) ==
    /\ apc = "launched"
    /\ promises[i].state = "pending"
    /\ LET outcome == ValidatorOutcome(validators[i], value)
       IN  /\ promises' = [promises EXCEPT ![i] = outcome]
           /\ order' = Append(order, i)
           /\ IF outcome.state = "resolved"
              THEN /\ values' = PromiseAllStore(values, i, outcome.value[1])
                   /\ remaining' = remaining - 1
                   /\ aggregate' = PromiseAllResolve(aggregate, values', remaining')
              ELSE /\ aggregate' = PromiseAllReject(aggregate, outcome.value[1])
                   /\ UNCHANGED <<values, remaining>>
    /\ UNCHANGED <<value, validators, apc>>
    /\ UNCHANGED <<results, asyncVars, reporterVars>>

(***************************************************************************)
(* StdoutReporter.                                                         *)
(***************************************************************************)
\* this.result.every((res) => res.isValid)
isValid(batch) == \A i \in DOMAIN batch : batch[i].isValid

\* this.result.filter((res) => !res.isValid)
IsInvalidResult(res) == ~res.isValid
\* A faulty variant of pickInvalid: the kept results come out in reverse order.
pickInvalidReversed(batch) ==
    LET kept == SelectSeq(batch, IsInvalidResult)
    IN  [i \in 1..Len(kept) |-> kept[Len(kept) + 1 - i]]

pickInvalid(batch) == SelectSeq(batch, IsInvalidResult)

\* this.result.filter((res) => res.isValid)
IsValidResult(res) == res.isValid
pickValid(batch) == SelectSeq(batch, IsValidResult)

\* One line of report(): `[#${index}][ ${valid|invalid} ] | ${res.message}`,
\* index counted from 0 and a null message written as "null".
ReportLine(res, index) ==
    "[#" \o NatToString(index) \o "][ "
         \o (IF res.isValid THEN "valid" ELSE "invalid") \o " ] | "
         \o (IF res.message.null THEN "null" ELSE res.message.text)
report(batch) == [i \in 1..Len(batch) |-> ReportLine(batch[i], i - 1)]

IsValidCall ==
    /\ retIsValid' = isValid(result)
    /\ calls' = calls \cup {"isValid"}
    /\ UNCHANGED <<result, retPickInvalid, retPickValid, stdout>>
    /\ UNCHANGED <<syncVars, asyncVars, allVars>>

PickInvalidCall ==
    /\ retPickInvalid' = pickInvalid(result)
    /\ calls' = calls \cup {"pickInvalid"}
    /\ UNCHANGED <<result, retIsValid, retPickValid, stdout>>
    /\ UNCHANGED <<syncVars, asyncVars, allVars>>

PickValidCall ==
    /\ retPickValid' = pickValid(result)
    /\ calls' = calls \cup {"pickValid"}
    /\ UNCHANGED <<result, retIsValid, retPickInvalid, stdout>>
    /\ UNCHANGED <<syncVars, asyncVars, allVars>>

ReportCall ==
    /\ Len(stdout) + Len(result) <= MaxOutput
    /\ stdout' = stdout \o report(result)
    /\ calls' = calls \cup {"report"}
    /\ UNCHANGED <<result, retIsValid, retPickInvalid, retPickValid>>
    /\ UNCHANGED <<syncVars, asyncVars, allVars>>

(***************************************************************************)
(* syncValidate.                                                           *)
(***************************************************************************)
SyncValidateCall ==
    /\ results = <<>>
    /\ results' = <<syncValidate(value, validators)>>
    /\ UNCHANGED <<value, validators>>
    /\ UNCHANGED <<asyncVars, allVars, reporterVars>>

(***************************************************************************)
(* The specifications.                                                     *)
(***************************************************************************)
RECURSIVE SeqsUpTo(_, _)
SeqsUpTo(S, n) ==
    IF n = 0 THEN {<<>>}
    ELSE LET shorter == SeqsUpTo(S, n - 1)
         IN  shorter \cup {Append(s, x) : s \in shorter, x \in S}

SyncIdle == value = Null /\ validators = <<>> /\ results = <<>>
AsyncIdle ==
    /\ timeout = <<>>
    /\ pc = "idle"
    /\ timer = "null"
    /\ callbackPromise = NoPromise
    /\ callbackArg = <<>>
    /\ timeoutPromise = NoPromise
    /\ racePromise = NoPromise
    /\ retPromise = NoPromise
    /\ events = <<>>
AllIdle ==
    /\ apc = "idle"
    /\ promises = <<>>
    /\ values = <<>>
    /\ remaining = 0
    /\ aggregate = NoPromise
    /\ order = <<>>
ReporterIdle ==
    /\ result = <<>>
    /\ calls = {}
    /\ retIsValid = FALSE
    /\ retPickInvalid = <<>>
    /\ retPickValid = <<>>
    /\ stdout = <<>>

\* syncValidate: any value, and a list of checks built from one configuration.
InitSync ==
    /\ value \in Values
    /\ \E targetType \in {"string", "number"}, min \in Numbers, max \in Numbers :
           validators \in SeqsUpTo(
               {SyncValidator(c, targetType, min, max) :
                    c \in {"checkType", "checkNumberValue", "checkStringLength"}},
               MaxValidators)
    /\ results = <<>>
    /\ AsyncIdle /\ AllIdle /\ ReporterIdle
NextSync == SyncValidateCall
SpecSync == InitSync /\ [][NextSync]_vars

\* checkAsync: value is number | null, timeout a number or undefined.
NumberOrNull == Numbers \cup {Null}
InitAsync ==
    /\ value \in NumberOrNull
    /\ validators = <<>> /\ results = <<>>
    /\ timeout \in {<<>>} \cup {<<t>> : t \in 0..MaxTimeout}
    /\ pc = "start"
    /\ timer = "null"
    /\ callbackPromise = NoPromise
    /\ callbackArg = <<>>
    /\ timeoutPromise = NoPromise
    /\ racePromise = NoPromise
    /\ retPromise = Pending
    /\ events = <<>>
    /\ AllIdle /\ ReporterIdle
NextAsync ==
    \/ Invoke
    \/ \E e \in Thrown : InvokeThrows(e)
    \/ CallbackResolves
    \/ \E e \in Thrown : CallbackRejects(e)
    \/ TimerFires
    \/ Resume
SpecAsync == InitAsync /\ [][NextAsync]_vars

\* asyncValidate: value is number | null, and a list of async validators.
AsyncValues == {Null} \cup {Num(n) : n \in 0..MaxNum}
InitAll ==
    /\ value \in AsyncValues
    /\ validators \in SeqsUpTo(AsyncValidators, MaxAsyncValidators)
    /\ results = <<>>
    /\ apc = "start"
    /\ promises = <<>>
    /\ values = <<>>
    /\ remaining = 0
    /\ aggregate = Pending
    /\ order = <<>>
    /\ AsyncIdle /\ ReporterIdle
NextAll ==
    \/ Launch
    \/ \E i \in DOMAIN promises : ValidatorSettles(i)
SpecAll == InitAll /\ [][NextAll]_vars

\* StdoutReporter: constructed from any batch of results.
ResultPool == {ValidResult,
               ValidationResult(FALSE, Message("bad")),
               ValidationResult(FALSE, NullMessage)}
InitReporter ==
    /\ result \in SeqsUpTo(ResultPool, MaxBatch)
    /\ calls = {}
    /\ retIsValid = FALSE
    /\ retPickInvalid = <<>>
    /\ retPickValid = <<>>
    /\ stdout = <<>>
    /\ SyncIdle /\ AsyncIdle /\ AllIdle
NextReporter ==
    \/ IsValidCall
    \/ PickInvalidCall
    \/ PickValidCall
    \/ ReportCall
SpecReporter == InitReporter /\ [][NextReporter]_vars

(***************************************************************************)
(* The properties.                                                         *)
(***************************************************************************)
WellFormed(res) == res.isValid <=> res.message.null

\* C1: every ValidationResult a check produces has isValid true if and only
\* if its message is null: the results of the synchronous checks and the
\* result the checkAsync predicate resolves to, whatever the callback did.
C1_ValidIffMessageAbsent ==
    /\ retPromise.state = "resolved" => WellFormed(retPromise.value[1])
    /\ \A k \in DOMAIN results : \A i \in DOMAIN results[k] : WellFormed(results[k][i])

TimeoutResult == ValidationResult(FALSE, Message("Timeout"))

\* C2: with a timeout configured, the predicate's result is decided by the
\* first of the two raced promises to settle: valid with a null message when
\* the callback resolved first, invalid with "Timeout" when the timer fired
\* first; and once the predicate's promise has settled, no later settlement
\* changes it.
C2_FirstSettlementWins ==
    /\ [](timeout # <<>> /\ Settled(retPromise) /\ events # <<>> =>
            /\ Head(events) = "resolve" => retPromise = Resolved(ValidResult)
            /\ Head(events) = "timeout" => retPromise = Resolved(TimeoutResult))
    /\ [][Settled(retPromise) => retPromise' = retPromise]_vars

\* C2 witness: the timer fired first, the predicate returned "Timeout", and
\* the callback resolved afterwards.
C2_Witness ==
    /\ pc = "done"
    /\ events = <<"timeout", "resolve">>
    /\ retPromise = Resolved(TimeoutResult)

C4_NeverRejects ==
    /\ retPromise.state \in {"pending", "resolved"}
    /\ retPromise.state = "resolved" =>
           /\ Len(retPromise.value) = 1
           /\ DOMAIN retPromise.value[1] = {"isValid", "message"}
           /\ retPromise.value[1].isValid \in BOOLEAN
           /\ DOMAIN retPromise.value[1].message = {"null", "text"}

\* C4 witness: the timer rejected timeoutPromise and the predicate resolved.
C4_Witness ==
    /\ timeoutPromise.state = "rejected"
    /\ racePromise = Rejected(TimeoutError)
    /\ retPromise.state = "resolved"

\* C9: once the predicate's promise has settled its timer is not pending any
\* more, on every exit path; and with no timeout no timer is ever created.
C9_TimerReleased ==
    /\ Settled(retPromise) => timer # "pending"
    /\ timeout = <<>> => timer = "null"

\* C9 witness: the callback resolved first and the pending timer was cleared.
C9_Witness ==
    /\ retPromise = Resolved(ValidResult)
    /\ timeout # <<>>
    /\ timer = "cleared"

\* C5: when asyncValidate resolves, its value has one element per validator
\* and element i is what validator i resolved to for value, in whatever order
\* the validators completed.
C5_ResultOrder ==
    aggregate.state = "resolved" =>
        LET out == aggregate.value[1]
        IN  /\ DOMAIN out = DOMAIN validators
            /\ \A i \in DOMAIN validators :
                   Resolved(out[i]) = ValidatorOutcome(validators[i], value)

\* C5 witness: two validators with different results completed in the
\* reverse of their order in the list.
C5_Witness ==
    /\ aggregate.state = "resolved"
    /\ Len(order) >= 2
    /\ order[1] > order[2]
    /\ aggregate.value[1][order[1]] # aggregate.value[1][order[2]]

RejectedValidators == {i \in DOMAIN promises : promises[i].state = "rejected"}
FirstRejected ==
    order[CHOOSE k \in DOMAIN order :
              /\ order[k] \in RejectedValidators
              /\ \A j \in 1..(k - 1) : order[j] \notin RejectedValidators]

\* C6 as stated: whenever a validator's promise has rejected, asyncValidate
\* has rejected with that validator's rejection, however the others settled;
\* and asyncValidate does not reject when no validator did.
C6_RejectsWithThatRejection ==
    /\ \A i \in RejectedValidators : aggregate = promises[i]
    /\ RejectedValidators = {} => aggregate.state # "rejected"

\* C6 as amended: whenever a validator's promise has rejected, asyncValidate
\* has rejected with the rejection of the validator that rejected first; and
\* asyncValidate does not reject when no validator did.
C6_RejectsWithFirstRejection ==
    /\ RejectedValidators # {} => aggregate = promises[FirstRejected]
    /\ RejectedValidators = {} => aggregate.state # "rejected"

\* C6 witness: two validators rejected with different reasons.
C6_Witness ==
    /\ aggregate.state = "rejected"
    /\ \E i, j \in RejectedValidators : promises[i] # promises[j]

PendingValidators == {i \in DOMAIN promises : promises[i].state = "pending"}

\* C10 as stated: every validator is launched before any completes, and
\* asyncValidate's promise is never settled while a validator is pending.
C10_SettlesAfterAll ==
    /\ apc = "start" => promises = <<>>
    /\ apc = "launched" => DOMAIN promises = DOMAIN validators
    /\ Settled(aggregate) => PendingValidators = {}

\* C10 as amended: every validator is launched before any completes;
\* asyncValidate's promise is not resolved until every validator has
\* resolved, is rejected as soon as one validator has rejected, even with
\* others pending, and is pending otherwise.
C10_ResolvesAfterAll ==
    /\ apc = "start" => promises = <<>> /\ aggregate.state = "pending"
    /\ apc = "launched" => DOMAIN promises = DOMAIN validators
    /\ aggregate.state = "resolved" =>
           \A i \in DOMAIN promises : promises[i].state = "resolved"
    /\ apc = "launched" =>
           (aggregate.state = "rejected" <=> RejectedValidators # {})
    /\ apc = "launched" /\ aggregate.state = "pending" => PendingValidators # {}

\* C10 witness: asyncValidate has rejected while a validator is still pending.
C10_Witness ==
    /\ aggregate.state = "rejected"
    /\ PendingValidators # {}

InRange(v, min, max) ==
    /\ ~v.nan /\ ~min.nan /\ ~max.nan
    /\ min.num <= v.num /\ v.num <= max.num

\* C7: checkNumberValue({min, max}) gives a number v a result whose isValid
\* is (min <= v and v <= max), bounds included, so never valid when min > max,
\* with the message "Value should be between {min} and {max}" when it fails;
\* and gives any other value the message "Value is not a number".
C7_NumberRange ==
    \A k \in DOMAIN results : \A i \in DOMAIN validators :
        validators[i].check = "checkNumberValue" =>
            LET res == results[k][i]
                min == validators[i].min
                max == validators[i].max
            IN  IF value.type = "number"
                THEN /\ res.isValid = InRange(value, min, max)
                     /\ res.isValid => res.message.null
                     /\ ~res.isValid =>
                            res.message = Message("Value should be between "
                                \o NumberToString(min) \o " and " \o NumberToString(max))
                     /\ (~min.nan /\ ~max.nan /\ min.num > max.num) => ~res.isValid
                     /\ (value = min \/ value = max) /\ ~value.nan /\ InRange(min, min, max)
                            => res.isValid
                ELSE res = ValidationResult(FALSE, Message("Value is not a number"))

\* C7 witness: 2 checked against the range -1..1.
C7_Witness ==
    /\ results # <<>>
    /\ value = Num(2)
    /\ \E i \in DOMAIN validators :
           /\ validators[i].check = "checkNumberValue"
           /\ validators[i].min = Num(-1)
           /\ validators[i].max = Num(1)
           /\ results[1][i].message.text = "Value should be between -1 and 1"

\* The elements of batch at the indices S, in increasing order of index.
NthIndex(S, j) == CHOOSE i \in S : Cardinality({k \in S : k < i}) = j - 1
ElementsAt(batch, S) == [j \in 1..Cardinality(S) |-> batch[NthIndex(S, j)]]
InvalidIndices == {i \in DOMAIN result : ~result[i].isValid}
ValidIndices == {i \in DOMAIN result : result[i].isValid}

\* C8: pickInvalid() is the invalid results and pickValid() the valid ones,
\* each in the batch's order, the two together the whole batch; isValid() is
\* true exactly when no result is invalid, so exactly when pickInvalid() is
\* empty, and true for the empty batch.
C8_ReporterPartition ==
    /\ "pickInvalid" \in calls => retPickInvalid = ElementsAt(result, InvalidIndices)
    /\ "pickValid" \in calls => retPickValid = ElementsAt(result, ValidIndices)
    /\ "isValid" \in calls =>
           /\ retIsValid = (InvalidIndices = {})
           /\ result = <<>> => retIsValid
    /\ {"pickInvalid", "pickValid"} \subseteq calls =>
           Len(retPickInvalid) + Len(retPickValid) = Len(result)
    /\ {"pickInvalid", "isValid"} \subseteq calls =>
           (retIsValid <=> retPickInvalid = <<>>)

\* C8 witness: a batch with two different invalid results and a valid one
\* between them, all three methods called.
C8_Witness ==
    /\ {"pickInvalid", "pickValid", "isValid"} \subseteq calls
    /\ Len(result) = 3
    /\ Len(retPickInvalid) = 2
    /\ retPickInvalid[1] # retPickInvalid[2]
    /\ result[2].isValid
    /\ retIsValid = FALSE

====
